---- MODULE Spec2Model ----
(***************************************************************************)
(* State-machine model of src/parser.py: the recursive-descent /           *)
(* precedence-climbing Parser.  The Python call stack is explicit (one     *)
(* frame per active method call, one action per program point), so that    *)
(* the cursor, termination and the returned tree can all be checked.       *)
(***************************************************************************)
EXTENDS Integers, Sequences, FiniteSets, TLC

VARIABLES
    tokens,               \* self.tokens
    current_token_index,  \* self.current_token_index
    current_token,        \* self.current_token (NoneToken models None)
    stack,                \* the Python call stack, innermost frame last
    ret,                  \* the value handed back by the last `return`
    outcome,              \* "running" | "returned" | "SyntaxError" | "AttributeError"
    result,               \* what Parser.parse returned (NoneNode models None)
    errpos                \* the position a SyntaxError message reports

vars == <<tokens, current_token_index, current_token, stack, ret, outcome, result, errpos>>

---------------------------------------------------------------------------
(* Bounds of the explored inputs *)

\* longest exhaustively enumerated token sequence (EOF not counted)
MaxLen == 3

\* most arguments in the generated well-formed function calls
MaxArgs == 2

---------------------------------------------------------------------------
(* Tokens *)

NoneToken == [type |-> "None", value |-> "", position |-> -1]

NumberTypes == {"INTEGER", "FLOAT"}

FunctionTypes == {"SIN", "COS", "TAN", "LOG"}

\* self.precedence
precedence == [t \in {"PLUS", "MINUS", "MULTIPLY", "DIVIDE", "POWER"} |->
                 CASE t \in {"PLUS", "MINUS"} -> 1
                   [] t \in {"MULTIPLY", "DIVIDE"} -> 2
                   [] t = "POWER" -> 3]

\* int(token.value) on the literals that occur in the inputs
PyInt(s) == CASE s = "1" -> <<"int", 1>>
              [] s = "2" -> <<"int", 2>>
              [] s = "3" -> <<"int", 3>>

\* float(token.value): mantissa and number of decimals
PyFloat(s) == CASE s = "2.5" -> <<"float", 25, 1>>
                [] s = "0.5" -> <<"float", 5, 1>>

---------------------------------------------------------------------------
(* AST nodes *)

NoneNode == [kind |-> "None"]

NumberNode(v) == [kind |-> "Number", value |-> v]

IdentifierNode(n) == [kind |-> "Identifier", name |-> n]

UnaryOpNode(o, operand) == [kind |-> "UnaryOp", operator |-> o, operand |-> operand]

BinaryOpNode(l, o, r) == [kind |-> "BinaryOp", left |-> l, operator |-> o, right |-> r]

FunctionCallNode(n, args) == [kind |-> "FunctionCall", name |-> n, arguments |-> args]

ProgramNode(e) == [kind |-> "Program", expression |-> e]

---------------------------------------------------------------------------
(* Call stack *)

\* a fresh frame of method fn; the locals a method does not use stay at their defaults
Frame(fn) == [fn |-> fn, pc |-> "start", min_precedence |-> 0, left |-> NoneNode,
              token |-> NoneToken, arguments |-> <<>>]

Top == stack[Len(stack)]

Callers == SubSeq(stack, 1, Len(stack) - 1)

At(fn, pc) == /\ outcome = "running"
              /\ Len(stack) > 0
              /\ Top.fn = fn
              /\ Top.pc = pc

\* the running method goes on as frame f
Goto(f) == stack' = Append(Callers, f)

\* the running method, continuing as frame f, calls the method of frame callee
Call(f, callee) == stack' = Append(Append(Callers, f), callee)

\* `return v` from the running method
Return(v) == /\ stack' = Callers
             /\ ret' = v

\* `raise SyntaxError(... position ...)`: nothing catches it, the parse ends
RaiseSyntaxError(pos) == /\ outcome' = "SyntaxError"
                         /\ errpos' = pos
                         /\ stack' = <<>>
                         /\ UNCHANGED <<tokens, current_token_index, current_token, ret, result>>

\* `.type` / `.position` read on None: AttributeError, not caught either
RaiseAttributeError == /\ outcome' = "AttributeError"
                       /\ stack' = <<>>
                       /\ UNCHANGED <<tokens, current_token_index, current_token, ret, result, errpos>>

advance_skips_a_token ==
    /\ current_token_index' = current_token_index + 2
    /\ current_token' = IF current_token_index + 2 < Len(tokens)
                        THEN tokens[current_token_index + 3]
                        ELSE NoneToken

\* Parser.advance (indices are 0-based in the code, sequences 1-based here)
advance ==
    /\ current_token_index' = current_token_index + 1
    /\ current_token' = IF current_token_index + 1 < Len(tokens)
                        THEN tokens[current_token_index + 2]
                        ELSE NoneToken

NoAdvance == UNCHANGED <<current_token_index, current_token>>

Running == UNCHANGED <<tokens, outcome, result, errpos>>

---------------------------------------------------------------------------
(* Parser.parse, parse_program, parse_expression *)

\* Parser.parse hands v to its caller
ParseReturns(v) == /\ outcome' = "returned"
                   /\ result' = v
                   /\ stack' = <<>>
                   /\ UNCHANGED <<tokens, current_token_index, current_token, ret, errpos>>

\* `if not self.tokens: return None`, else `ast = self.parse_program()`
Parse_Start ==
    /\ At("parse", "start")
    /\ IF Len(tokens) = 0
       THEN ParseReturns(NoneNode)
       ELSE /\ Call([Top EXCEPT !.pc = "check"], Frame("parse_program"))
            /\ NoAdvance /\ Running /\ UNCHANGED ret

Parse_Check_accepts_trailing_tokens ==
    /\ At("parse", "check")
    /\ ParseReturns(ret)

\* the EOF check after parse_program has returned, then `return ast`
Parse_Check ==
    /\ At("parse", "check")
    /\ IF current_token = NoneToken
       THEN RaiseAttributeError
       ELSE IF current_token.type # "EOF"
            THEN RaiseSyntaxError(current_token.position)
            ELSE ParseReturns(ret)

Program_Start ==
    /\ At("parse_program", "start")
    /\ Call([Top EXCEPT !.pc = "wrap"], Frame("parse_expression"))
    /\ NoAdvance /\ Running /\ UNCHANGED ret

Program_Return ==
    /\ At("parse_program", "wrap")
    /\ Return(ProgramNode(ret))
    /\ NoAdvance /\ Running

Expression_Start ==
    /\ At("parse_expression", "start")
    /\ Call([Top EXCEPT !.pc = "ret"], Frame("parse_binary_expression"))
    /\ NoAdvance /\ Running /\ UNCHANGED ret

Expression_Return ==
    /\ At("parse_expression", "ret")
    /\ Return(ret)
    /\ NoAdvance /\ Running

---------------------------------------------------------------------------
(* Parser.parse_binary_expression *)

next_min_precedence_left_associative(operator_token) ==
    precedence[operator_token.type] + 1

\* the threshold handed to the recursive call for the right operand
next_min_precedence(operator_token) ==
    IF operator_token.type = "POWER"
    THEN precedence[operator_token.type] - 1
    ELSE precedence[operator_token.type] + 1

\* `left = self.parse_primary()`
Binary_Start ==
    /\ At("parse_binary_expression", "start")
    /\ Call([Top EXCEPT !.pc = "left"], Frame("parse_primary"))
    /\ NoAdvance /\ Running /\ UNCHANGED ret

Binary_Left ==
    /\ At("parse_binary_expression", "left")
    /\ Goto([Top EXCEPT !.pc = "while", !.left = ret])
    /\ NoAdvance /\ Running /\ UNCHANGED ret

\* the while condition; on an operator: consume it and parse the right operand
Binary_While ==
    /\ At("parse_binary_expression", "while")
    /\ IF current_token = NoneToken
       THEN RaiseAttributeError
       ELSE IF /\ current_token.type \in DOMAIN precedence
               /\ precedence[current_token.type] >= Top.min_precedence
            THEN /\ advance
                 /\ Call([Top EXCEPT !.pc = "fold", !.token = current_token],
                         [Frame("parse_binary_expression") EXCEPT
                             !.min_precedence = next_min_precedence(current_token)])
                 /\ Running /\ UNCHANGED ret
            ELSE /\ Return(Top.left)
                 /\ NoAdvance /\ Running

Binary_Fold_forgets_left_operand ==
    /\ At("parse_binary_expression", "fold")
    /\ Goto([Top EXCEPT !.pc = "while", !.left = ret])
    /\ NoAdvance /\ Running /\ UNCHANGED ret

\* `left = BinaryOpNode(left, operator_token.value, right)`
Binary_Fold ==
    /\ At("parse_binary_expression", "fold")
    /\ Goto([Top EXCEPT !.pc = "while",
                        !.left = BinaryOpNode(Top.left, Top.token.value, ret)])
    /\ NoAdvance /\ Running /\ UNCHANGED ret

---------------------------------------------------------------------------
(* Parser.parse_primary *)

Primary_Number ==
    /\ At("parse_primary", "start")
    /\ current_token.type \in NumberTypes
    /\ advance
    /\ Return(NumberNode(IF current_token.type = "FLOAT"
                         THEN PyFloat(current_token.value)
                         ELSE PyInt(current_token.value)))
    /\ Running

Primary_Identifier ==
    /\ At("parse_primary", "start")
    /\ current_token.type = "IDENTIFIER"
    /\ advance
    /\ Return(IdentifierNode(current_token.value))
    /\ Running

Primary_Function ==
    /\ At("parse_primary", "start")
    /\ current_token.type \in FunctionTypes
    /\ Call([Top EXCEPT !.pc = "ret"],
            [Frame("_parse_function_call") EXCEPT !.token = current_token])
    /\ NoAdvance /\ Running /\ UNCHANGED ret

Primary_Paren ==
    /\ At("parse_primary", "start")
    /\ current_token.type = "LPAREN"
    /\ Call([Top EXCEPT !.pc = "ret"], Frame("_parse_parenthesized_expression"))
    /\ NoAdvance /\ Running /\ UNCHANGED ret

Primary_Minus_parses_an_expression ==
    /\ At("parse_primary", "start")
    /\ current_token.type = "MINUS"
    /\ advance
    /\ Call([Top EXCEPT !.pc = "neg"], Frame("parse_expression"))
    /\ Running /\ UNCHANGED ret

\* unary negation: consume '-', then `operand = self.parse_primary()`
Primary_Minus ==
    /\ At("parse_primary", "start")
    /\ current_token.type = "MINUS"
    /\ advance
    /\ Call([Top EXCEPT !.pc = "neg"], Frame("parse_primary"))
    /\ Running /\ UNCHANGED ret

\* `return UnaryOpNode('-', operand)`
Primary_Negate ==
    /\ At("parse_primary", "neg")
    /\ Return(UnaryOpNode("-", ret))
    /\ NoAdvance /\ Running

\* unary plus: consume '+', then `return self.parse_primary()`
Primary_Plus ==
    /\ At("parse_primary", "start")
    /\ current_token.type = "PLUS"
    /\ advance
    /\ Call([Top EXCEPT !.pc = "ret"], Frame("parse_primary"))
    /\ Running /\ UNCHANGED ret

\* the `return self.<callee>(...)` of the function, parenthesis and '+' branches
Primary_Return ==
    /\ At("parse_primary", "ret")
    /\ Return(ret)
    /\ NoAdvance /\ Running

\* the else branch; `token.type` on None fails before any branch is tried
Primary_Unexpected ==
    /\ At("parse_primary", "start")
    /\ current_token.type \notin
          NumberTypes \cup FunctionTypes \cup {"IDENTIFIER", "LPAREN", "MINUS", "PLUS"}
    /\ IF current_token = NoneToken
       THEN RaiseAttributeError
       ELSE RaiseSyntaxError(current_token.position)

---------------------------------------------------------------------------
(* Parser._parse_function_call *)

\* `function_name = function_token.value` (kept in the frame's token), consume the name
Function_Start ==
    /\ At("_parse_function_call", "start")
    /\ advance
    /\ Goto([Top EXCEPT !.pc = "lparen"])
    /\ Running /\ UNCHANGED ret

\* expect '(' and consume it; `arguments = []`
Function_LParen ==
    /\ At("_parse_function_call", "lparen")
    /\ IF current_token = NoneToken
       THEN RaiseAttributeError
       ELSE IF current_token.type # "LPAREN"
            THEN RaiseSyntaxError(current_token.position)
            ELSE /\ advance
                 /\ Goto([Top EXCEPT !.pc = "first", !.arguments = <<>>])
                 /\ Running /\ UNCHANGED ret

\* `if self.current_token.type != RPAREN:` parse the first argument
Function_First ==
    /\ At("_parse_function_call", "first")
    /\ IF current_token = NoneToken
       THEN RaiseAttributeError
       ELSE /\ IF current_token.type # "RPAREN"
               THEN Call([Top EXCEPT !.pc = "append"], Frame("parse_expression"))
               ELSE Goto([Top EXCEPT !.pc = "close"])
            /\ NoAdvance /\ Running /\ UNCHANGED ret

Function_Append_prepends ==
    /\ At("_parse_function_call", "append")
    /\ Goto([Top EXCEPT !.pc = "comma", !.arguments = <<ret>> \o Top.arguments])
    /\ NoAdvance /\ Running /\ UNCHANGED ret

\* `arguments.append(<the expression just parsed>)`
Function_Append ==
    /\ At("_parse_function_call", "append")
    /\ Goto([Top EXCEPT !.pc = "comma", !.arguments = Append(Top.arguments, ret)])
    /\ NoAdvance /\ Running /\ UNCHANGED ret

Function_Comma_never_consumes_the_comma ==
    /\ At("_parse_function_call", "comma")
    /\ IF current_token = NoneToken
       THEN RaiseAttributeError
       ELSE IF current_token.type = "COMMA"
            THEN /\ Goto([Top EXCEPT !.pc = "comma"])
                 /\ NoAdvance /\ Running /\ UNCHANGED ret
            ELSE /\ Goto([Top EXCEPT !.pc = "close"])
                 /\ NoAdvance /\ Running /\ UNCHANGED ret

\* `while self.current_token.type == COMMA:` consume it and parse the next argument
Function_Comma ==
    /\ At("_parse_function_call", "comma")
    /\ IF current_token = NoneToken
       THEN RaiseAttributeError
       ELSE IF current_token.type = "COMMA"
            THEN /\ advance
                 /\ Call([Top EXCEPT !.pc = "append"], Frame("parse_expression"))
                 /\ Running /\ UNCHANGED ret
            ELSE /\ Goto([Top EXCEPT !.pc = "close"])
                 /\ NoAdvance /\ Running /\ UNCHANGED ret

\* expect ')' and consume it; `return FunctionCallNode(function_name, arguments)`
Function_Close ==
    /\ At("_parse_function_call", "close")
    /\ IF current_token = NoneToken
       THEN RaiseAttributeError
       ELSE IF current_token.type # "RPAREN"
            THEN RaiseSyntaxError(current_token.position)
            ELSE /\ advance
                 /\ Return(FunctionCallNode(Top.token.value, Top.arguments))
                 /\ Running

---------------------------------------------------------------------------
(* Parser._parse_parenthesized_expression *)

\* consume '(' and parse the inner expression
Paren_Start ==
    /\ At("_parse_parenthesized_expression", "start")
    /\ advance
    /\ Call([Top EXCEPT !.pc = "close"], Frame("parse_expression"))
    /\ Running /\ UNCHANGED ret

Paren_Close_wraps_a_group_node ==
    /\ At("_parse_parenthesized_expression", "close")
    /\ IF current_token = NoneToken
       THEN RaiseAttributeError
       ELSE IF current_token.type # "RPAREN"
            THEN RaiseSyntaxError(current_token.position)
            ELSE /\ advance
                 /\ Return(UnaryOpNode("()", ret))
                 /\ Running

\* expect ')' and consume it; `return expression`
Paren_Close ==
    /\ At("_parse_parenthesized_expression", "close")
    /\ IF current_token = NoneToken
       THEN RaiseAttributeError
       ELSE IF current_token.type # "RPAREN"
            THEN RaiseSyntaxError(current_token.position)
            ELSE /\ advance
                 /\ Return(ret)
                 /\ Running

---------------------------------------------------------------------------
(* The token sequences handed to Parser(tokens=...) *)

Lex(t, v) == [type |-> t, value |-> v]

INT1 == Lex("INTEGER", "1")
INT2 == Lex("INTEGER", "2")
INT3 == Lex("INTEGER", "3")
FLT25 == Lex("FLOAT", "2.5")
FLT05 == Lex("FLOAT", "0.5")
IDX == Lex("IDENTIFIER", "x")
IDY == Lex("IDENTIFIER", "y")
PLUS == Lex("PLUS", "+")
MINUS == Lex("MINUS", "-")
MULTIPLY == Lex("MULTIPLY", "*")
DIVIDE == Lex("DIVIDE", "/")
POWER == Lex("POWER", "^")
LPAREN == Lex("LPAREN", "(")
RPAREN == Lex("RPAREN", ")")
COMMA == Lex("COMMA", ",")
SIN == Lex("SIN", "sin")
COS == Lex("COS", "cos")
TAN == Lex("TAN", "tan")
LOG == Lex("LOG", "log")
EOF == Lex("EOF", "")

BinaryOperators == {PLUS, MINUS, MULTIPLY, DIVIDE, POWER}

FunctionNames == {SIN, COS, TAN, LOG}

\* a lexeme sequence as tokens: position is the zero-based offset
Tokens(lexemes) == [i \in 1..Len(lexemes) |->
                      [type |-> lexemes[i].type, value |-> lexemes[i].value, position |-> i - 1]]

\* one token of every branch of the grammar, enumerated exhaustively up to MaxLen
Core == {INT1, IDX, SIN, PLUS, MINUS, MULTIPLY, POWER, LPAREN, RPAREN, COMMA}

\* every Core sequence up to MaxLen, with and without its EOF
Exhaustive == LET body == UNION {[1..n -> Core] : n \in 0..MaxLen}
              IN  body \cup {Append(s, EOF) : s \in body}

\* primaries with the node each stands for
Prim(lexemes, node) == [lex |-> lexemes, node |-> node]

LeafA == {Prim(<<INT1>>, NumberNode(PyInt("1"))), Prim(<<IDX>>, IdentifierNode("x"))}
LeafB == {Prim(<<INT2>>, NumberNode(PyInt("2"))), Prim(<<IDY>>, IdentifierNode("y"))}
LeafC == {Prim(<<INT3>>, NumberNode(PyInt("3"))), Prim(<<FLT25>>, NumberNode(PyFloat("2.5")))}

PrimA == LeafA \cup {Prim(<<SIN, LPAREN, RPAREN>>, FunctionCallNode("sin", <<>>))}
PrimB == LeafB \cup {Prim(<<MINUS, IDY>>, UnaryOpNode("-", IdentifierNode("y")))}
PrimC == LeafC \cup {Prim(<<LPAREN, IDX, RPAREN>>, IdentifierNode("x"))}

\* a op1 b op2 c EOF
Chain(a, op1, b, op2, c) == a.lex \o <<op1>> \o b.lex \o <<op2>> \o c.lex \o <<EOF>>

\* - a op b EOF
Negated(a, op, b) == <<MINUS>> \o a.lex \o <<op>> \o b.lex \o <<EOF>>

\* ( a op1 b ) op2 c EOF
GroupLeft(a, op1, b, op2, c) ==
    <<LPAREN>> \o a.lex \o <<op1>> \o b.lex \o <<RPAREN, op2>> \o c.lex \o <<EOF>>

\* a op1 ( b op2 c ) EOF
GroupRight(a, op1, b, op2, c) ==
    a.lex \o <<op1, LPAREN>> \o b.lex \o <<op2>> \o c.lex \o <<RPAREN, EOF>>

\* a op1 ( b op2 c EOF: the group is never closed
GroupOpen(a, op1, b, op2, c) ==
    a.lex \o <<op1, LPAREN>> \o b.lex \o <<op2>> \o c.lex \o <<EOF>>

\* argument expressions with the node each stands for
ArgExprs == {Prim(<<INT1>>, NumberNode(PyInt("1"))),
             Prim(<<INT2, PLUS, IDY>>,
                  BinaryOpNode(NumberNode(PyInt("2")), "+", IdentifierNode("y"))),
             Prim(<<COS, LPAREN, FLT05, RPAREN>>,
                  FunctionCallNode("cos", <<NumberNode(PyFloat("0.5"))>>))}

ArgLists == UNION {[1..n -> ArgExprs] : n \in 0..MaxArgs}

RECURSIVE CommaJoin(_)
CommaJoin(args) == IF Len(args) = 0 THEN <<>>
                   ELSE IF Len(args) = 1 THEN args[1].lex
                   ELSE args[1].lex \o <<COMMA>> \o CommaJoin(Tail(args))

\* f ( e1 , ... , en ) EOF
WellFormedCall(f, args) == <<f, LPAREN>> \o CommaJoin(args) \o <<RPAREN, EOF>>

\* f e1 , ... , en ) EOF: no '(' after the name
CallNoLParen(f, args) == <<f>> \o CommaJoin(args) \o <<RPAREN, EOF>>

\* f ( e1 , ... , en , ) EOF
CallTrailingComma(f, args) == <<f, LPAREN>> \o CommaJoin(args) \o <<COMMA, RPAREN, EOF>>

\* f ( e1 , ... , en t EOF with t not ')': t is the empty sequence or an identifier
CallNoRParen(f, args, t) == <<f, LPAREN>> \o CommaJoin(args) \o t \o <<EOF>>

Shaped ==
    {Chain(a, op1, b, op2, c) :
        a \in PrimA, b \in PrimB, c \in PrimC, op1 \in BinaryOperators, op2 \in BinaryOperators}
    \cup {Negated(a, op, b) : a \in PrimA, b \in PrimB, op \in BinaryOperators}
    \cup {GroupLeft(a, op1, b, op2, c) :
        a \in LeafA, b \in LeafB, c \in LeafC, op1 \in BinaryOperators, op2 \in BinaryOperators}
    \cup {GroupRight(a, op1, b, op2, c) :
        a \in LeafA, b \in LeafB, c \in LeafC, op1 \in BinaryOperators, op2 \in BinaryOperators}
    \cup {GroupOpen(a, op1, b, op2, c) :
        a \in LeafA, b \in LeafB, c \in LeafC, op1 \in BinaryOperators, op2 \in BinaryOperators}
    \cup {WellFormedCall(f, args) : f \in FunctionNames, args \in ArgLists}
    \cup {CallNoLParen(f, args) : f \in FunctionNames, args \in ArgLists}
    \cup {CallTrailingComma(f, args) : f \in FunctionNames, args \in ArgLists}
    \cup {CallNoRParen(f, args, t) : f \in FunctionNames, args \in ArgLists, t \in {<<>>, <<IDX>>}}

Inputs == Exhaustive \cup Shaped

---------------------------------------------------------------------------
(* Specification *)

\* Parser.__init__ on a token sequence, followed by the call of parse
Init ==
    /\ tokens \in {Tokens(lexemes) : lexemes \in Inputs}
    /\ current_token_index = 0
    /\ current_token = IF Len(tokens) > 0 THEN tokens[1] ELSE NoneToken
    /\ stack = <<Frame("parse")>>
    /\ ret = NoneNode
    /\ outcome = "running"
    /\ result = NoneNode
    /\ errpos = -1

Next ==
    \/ Parse_Start
    \/ Parse_Check
    \/ Program_Start
    \/ Program_Return
    \/ Expression_Start
    \/ Expression_Return
    \/ Binary_Start
    \/ Binary_Left
    \/ Binary_While
    \/ Binary_Fold
    \/ Primary_Number
    \/ Primary_Identifier
    \/ Primary_Function
    \/ Primary_Paren
    \/ Primary_Minus
    \/ Primary_Negate
    \/ Primary_Plus
    \/ Primary_Return
    \/ Primary_Unexpected
    \/ Function_Start
    \/ Function_LParen
    \/ Function_First
    \/ Function_Append
    \/ Function_Comma
    \/ Function_Close
    \/ Paren_Start
    \/ Paren_Close

Spec == Init /\ [][Next]_vars

\* the interpreter runs the parse to its end: some step is taken while one is possible
FairSpec == Spec /\ WF_vars(Next)

---------------------------------------------------------------------------
(* Vocabulary of the properties *)

Done == outcome # "running"

Accepted == outcome = "returned" /\ result.kind = "Program"

Rejected == outcome = "SyntaxError" /\ result = NoneNode

\* the sequence ends in its one EOF token
EofTerminated ==
    /\ Len(tokens) > 0
    /\ \A i \in 1..Len(tokens) : tokens[i].type = "EOF" <=> i = Len(tokens)

TokenCount(types) == Cardinality({i \in 1..Len(tokens) : tokens[i].type \in types})

RECURSIVE SumOver(_, _)
SumOver(counts, n) == IF n = 0 THEN 0 ELSE counts[n] + SumOver(counts, n - 1)

\* the child nodes of a node, in order
Children(n) == CASE n.kind = "Program" -> <<n.expression>>
                 [] n.kind = "UnaryOp" -> <<n.operand>>
                 [] n.kind = "BinaryOp" -> <<n.left, n.right>>
                 [] n.kind = "FunctionCall" -> n.arguments
                 [] OTHER -> <<>>

\* how many nodes of the tree under n have a kind in kinds
RECURSIVE CountKinds(_, _)
CountKinds(n, kinds) ==
    LET kids == Children(n)
    IN  (IF n.kind \in kinds THEN 1 ELSE 0)
        + SumOver([i \in 1..Len(kids) |-> CountKinds(kids[i], kinds)], Len(kids))

\* how many nodes of the tree under n have no child nodes
RECURSIVE CountChildless(_)
CountChildless(n) ==
    LET kids == Children(n)
    IN  IF Len(kids) = 0 THEN 1
        ELSE SumOver([i \in 1..Len(kids) |-> CountChildless(kids[i])], Len(kids))

\* every node of the tree under n
RECURSIVE Nodes(_)
Nodes(n) == LET kids == Children(n)
            IN  {n} \cup UNION {Nodes(kids[i]) : i \in 1..Len(kids)}

ArgNodes(args) == [i \in 1..Len(args) |-> args[i].node]

---------------------------------------------------------------------------
(* C1 *)

\* C1: for primaries a, b, c and binary operators op1, op2 of different
\* precedence, parsing 'a op1 b op2 c EOF' returns the tree in which the
\* higher-precedence operator's BinaryOp is the child of the lower one's:
\* a op1 (b op2 c) when prec(op1) < prec(op2), (a op1 b) op2 c otherwise.
C1_HigherPrecedenceBindsTighter ==
    (Done /\ Len(tokens) >= 6) =>
        \A a \in PrimA, b \in PrimB, c \in PrimC, op1 \in BinaryOperators, op2 \in BinaryOperators :
            (/\ precedence[op1.type] # precedence[op2.type]
             /\ tokens = Tokens(Chain(a, op1, b, op2, c)))
            => /\ outcome = "returned"
               /\ result = ProgramNode(
                    IF precedence[op1.type] < precedence[op2.type]
                    THEN BinaryOpNode(a.node, op1.value, BinaryOpNode(b.node, op2.value, c.node))
                    ELSE BinaryOpNode(BinaryOpNode(a.node, op1.value, b.node), op2.value, c.node))

---------------------------------------------------------------------------
(* C2 *)

\* C2: for primaries a, b, c and two binary operators of the same precedence,
\* parsing 'a op1 b op2 c EOF' returns (a op1 b) op2 c for + - and for * /
\* (left-associative) and a ^ (b ^ c) for ^ ^ (right-associative).
C2_Associativity ==
    (Done /\ Len(tokens) >= 6) =>
        \A a \in PrimA, b \in PrimB, c \in PrimC, op1 \in BinaryOperators, op2 \in BinaryOperators :
            (/\ precedence[op1.type] = precedence[op2.type]
             /\ tokens = Tokens(Chain(a, op1, b, op2, c)))
            => /\ outcome = "returned"
               /\ result = ProgramNode(
                    IF op1 = POWER
                    THEN BinaryOpNode(a.node, "^", BinaryOpNode(b.node, "^", c.node))
                    ELSE BinaryOpNode(BinaryOpNode(a.node, op1.value, b.node), op2.value, c.node))

\* '1 ^ y ^ 3 EOF' has been parsed to the end and accepted
C2_Witness ==
    /\ tokens = Tokens(<<INT1, POWER, IDY, POWER, INT3, EOF>>)
    /\ Accepted
    /\ result.expression.right.kind = "BinaryOp"

---------------------------------------------------------------------------
(* C3 *)

\* C3: unary minus binds tighter than every binary operator: parsing
\* '- a op b EOF' returns BinaryOp(UnaryOp('-', a), op, b); and the operand of
\* a UnaryOp is one primary: in a tree accepted from a sequence without
\* parentheses no UnaryOp has a BinaryOp as its operand.
C3_UnaryMinusBindsTightest ==
    Done =>
        /\ \A a \in PrimA, b \in PrimB, op \in BinaryOperators :
              tokens = Tokens(Negated(a, op, b))
              => /\ outcome = "returned"
                 /\ result = ProgramNode(
                      BinaryOpNode(UnaryOpNode("-", a.node), op.value, b.node))
        /\ (Accepted /\ TokenCount({"LPAREN"}) = 0)
              => \A n \in Nodes(result) :
                    n.kind = "UnaryOp" => n.operand.kind \in {"Number", "Identifier", "UnaryOp"}

\* '- 1 ^ 2 EOF' has been parsed to the end and accepted
C3_Witness ==
    /\ tokens = Tokens(<<MINUS, INT1, POWER, INT2, EOF>>)
    /\ Accepted
    /\ result.expression.left.kind = "UnaryOp"

---------------------------------------------------------------------------
(* C4 *)

\* C4: parse returns a Program only with the current token at EOF; when the
\* top-level expression is complete and the current token is a token other
\* than EOF, the next step raises SyntaxError reporting that token's position
\* and no tree is returned.
C4_TrailingTokensRejected ==
    /\ [](Accepted => current_token.type = "EOF")
    /\ [][(At("parse", "check") /\ current_token # NoneToken /\ current_token.type # "EOF")
            => (Rejected' /\ errpos' = current_token.position)]_vars

\* '1 x EOF': the expression 1 is complete and parse has rejected the x at position 1
C4_Witness ==
    /\ tokens = Tokens(<<INT1, IDX, EOF>>)
    /\ Rejected
    /\ current_token = tokens[2]
    /\ errpos = 1

---------------------------------------------------------------------------
(* C5 *)

\* C5: for every token sequence, EOF-terminated or not, the empty one
\* included, parse either returns a Program node or fails with SyntaxError:
\* no other return value and no other error.
C5_ProgramOrSyntaxError ==
    Done => (Accepted \/ outcome = "SyntaxError")

---------------------------------------------------------------------------
(* C6 *)

\* a function name not followed by '(' or a ',' directly followed by ')'
MalformedCall ==
    \E i \in 1..(Len(tokens) - 1) :
        \/ tokens[i].type \in FunctionTypes /\ tokens[i + 1].type # "LPAREN"
        \/ tokens[i].type = "COMMA" /\ tokens[i + 1].type = "RPAREN"

\* C6: on an EOF-terminated sequence a malformed call is rejected with
\* SyntaxError and no tree (a function name not followed by '(', a trailing
\* comma, a token other than ')' after the last argument), and a well-formed
\* call of n >= 0 comma-separated arguments yields FunctionCall(name, args)
\* with exactly those n arguments in source order.
C6_FunctionCalls ==
    (Done /\ EofTerminated) =>
        /\ MalformedCall => Rejected
        /\ \A f \in FunctionNames, args \in ArgLists :
              /\ tokens = Tokens(WellFormedCall(f, args))
                    => /\ outcome = "returned"
                       /\ result = ProgramNode(FunctionCallNode(f.value, ArgNodes(args)))
                       /\ Len(result.expression.arguments) = Len(args)
              /\ \A t \in {<<>>, <<IDX>>} :
                    tokens = Tokens(CallNoRParen(f, args, t)) => Rejected

\* 'log ( 1 , 2 + y ) EOF' has been accepted with its two arguments
C6_Witness ==
    /\ tokens = Tokens(<<LOG, LPAREN, INT1, COMMA, INT2, PLUS, IDY, RPAREN, EOF>>)
    /\ Accepted
    /\ Len(result.expression.arguments) = 2

---------------------------------------------------------------------------
(* C7 *)

LeafTokenTypes == {"INTEGER", "FLOAT", "IDENTIFIER"}

InternalKinds == {"Program", "UnaryOp", "BinaryOp", "FunctionCall"}

\* C7 as claimed: for every accepted EOF-terminated sequence the number of
\* nodes without child nodes equals the number of INTEGER/FLOAT/IDENTIFIER
\* tokens, and the number of Program/UnaryOp/BinaryOp/FunctionCall nodes is
\* less than the number of tokens, EOF included.
C7_ChildlessNodesMatchLeafTokens ==
    (Accepted /\ EofTerminated) =>
        /\ CountChildless(result) = TokenCount(LeafTokenTypes)
        /\ CountKinds(result, InternalKinds) < Len(tokens)

\* C7 amended: for every accepted EOF-terminated sequence the number of Number
\* and Identifier nodes equals the number of INTEGER/FLOAT/IDENTIFIER tokens
\* (a FunctionCall without arguments has no child nodes and is not a leaf),
\* and the number of Program/UnaryOp/BinaryOp/FunctionCall nodes is less than
\* the number of tokens, EOF included.
C7_LeafNodesMatchLeafTokens ==
    (Accepted /\ EofTerminated) =>
        /\ CountKinds(result, {"Number", "Identifier"}) = TokenCount(LeafTokenTypes)
        /\ CountKinds(result, InternalKinds) < Len(tokens)

\* an accepted tree with a call, a binary operator and three leaves
C7_Witness ==
    /\ Accepted
    /\ EofTerminated
    /\ TokenCount(LeafTokenTypes) = 3
    /\ CountKinds(result, {"Number", "Identifier"}) = 3
    /\ CountKinds(result, {"FunctionCall"}) >= 1
    /\ CountKinds(result, {"BinaryOp"}) >= 1

---------------------------------------------------------------------------
(* C8 *)

\* C8: grouping overrides precedence and associativity: '( a op1 b ) op2 c EOF'
\* returns (a op1 b) op2 c and 'a op1 ( b op2 c ) EOF' returns a op1 (b op2 c)
\* for all binary operators, with no node for the parentheses; a '(' whose
\* ')' is missing after the inner expression is rejected with SyntaxError.
C8_Grouping ==
    (Done /\ Len(tokens) >= 7) =>
        \A a \in LeafA, b \in LeafB, c \in LeafC, op1 \in BinaryOperators, op2 \in BinaryOperators :
            /\ tokens = Tokens(GroupLeft(a, op1, b, op2, c))
                  => /\ outcome = "returned"
                     /\ result = ProgramNode(
                          BinaryOpNode(BinaryOpNode(a.node, op1.value, b.node), op2.value, c.node))
            /\ tokens = Tokens(GroupRight(a, op1, b, op2, c))
                  => /\ outcome = "returned"
                     /\ result = ProgramNode(
                          BinaryOpNode(a.node, op1.value, BinaryOpNode(b.node, op2.value, c.node)))
            /\ tokens = Tokens(GroupOpen(a, op1, b, op2, c))
                  => /\ Rejected
                     /\ errpos = tokens[Len(tokens)].position

\* '( 1 + 2 ) * 3 EOF' has been parsed to the end and accepted
C8_Witness ==
    /\ tokens = Tokens(<<LPAREN, INT1, PLUS, INT2, RPAREN, MULTIPLY, INT3, EOF>>)
    /\ Accepted
    /\ result.expression.operator = "*"

---------------------------------------------------------------------------
(* C9 *)

\* C9: on every sequence that ends in its one EOF token, valid or malformed,
\* the parse eventually ends: it has returned or it has raised SyntaxError.
C9_Terminates ==
    EofTerminated => <>(outcome \in {"returned", "SyntaxError"})

\* a malformed EOF-terminated sequence whose parse ended after consuming tokens
C9_Witness ==
    /\ EofTerminated
    /\ outcome = "SyntaxError"
    /\ current_token_index >= 3
    /\ TokenCount(FunctionTypes) >= 1

---------------------------------------------------------------------------
(* C10 *)

\* C10: during the parse of an EOF-terminated sequence of n tokens the cursor
\* moves only by +1, current_token is tokens[current_token_index], the index
\* stays within 0..n-1 (advance is never called on EOF, current_token is never
\* None), and when a Program is returned the index is n-1.
C10_ForwardOnlyCursor ==
    /\ [](EofTerminated =>
            /\ current_token_index \in 0..(Len(tokens) - 1)
            /\ current_token = tokens[current_token_index + 1]
            /\ current_token # NoneToken
            /\ Accepted => current_token_index = Len(tokens) - 1)
    /\ [][EofTerminated =>
            \/ current_token_index' = current_token_index
            \/ /\ current_token_index' = current_token_index + 1
               /\ current_token.type # "EOF"]_vars

\* an accepted parse that has moved the cursor over seven tokens to the EOF
C10_Witness ==
    /\ EofTerminated
    /\ Accepted
    /\ Len(tokens) = 8
    /\ current_token_index = 7

====
